---- MODULE Spec2Model ----
(***************************************************************************)
(* main.cpp of ADLX-Fan-Tuning-Custom: one run of main(), which drives the *)
(* ADLX SDK through a linear sequence of calls.  The SDK is the            *)
(* environment: the result code of every call that returns ADLX_RESULT is  *)
(* chosen freely, and so is what the device reports.  `calls` is           *)
(* the trace of calls made on SDK objects, in order, including the Release *)
(* each interface smart pointer makes when it goes out of scope.           *)
(***************************************************************************)
EXTENDS Integers, Sequences, FiniteSets

VARIABLES
    pc,              \* position in main / SetZeroRPM / SetFan (source line)
    adlx,            \* state of the library behind g_ADLXHelp
    held,            \* interface smart pointers in scope that hold an interface
    res,             \* ADLX_RESULT res
    calls,           \* trace of the calls made on SDK objects
    cout,            \* lines written to std::cout
    waitCalls,       \* calls of WaitAndExit: <<msg, retCode>>
    msg,             \* message handed to WaitAndExit on a failure path
    retCode,         \* value main returned (-1 while it is running)
    devZeroRPM,      \* device: zero RPM currently enabled
    devStates,       \* device: committed fan tuning states
    dev0,            \* the device as it was when the process started
    enabled,         \* SetZeroRPM: parameter
    supported,       \* SetZeroRPM: local
    ZeroRPMenabled,  \* SetZeroRPM: local
    states,          \* SetFan: the fetched state list
    passed,          \* state lists handed to SetFanTuningStates
    crt,             \* SetFan: loop index
    speed,           \* SetFan: local
    temperature      \* SetFan: local

vars == <<pc, adlx, held, res, calls, cout, waitCalls, msg, retCode,
          devZeroRPM, devStates, dev0, enabled, supported, ZeroRPMenabled,
          states, passed, crt, speed, temperature>>

----------------------------------------------------------------------------
(* Bounds of the model *)

\* largest number of fan tuning states the device may report
MaxStates == 6
\* largest number of entries of the device's curve that differ from the target
MaxDirty == 2

----------------------------------------------------------------------------
(* Constants of the program *)

NumStates == 5
FanSpeed == <<25, 45, 50, 65, 90>>
Temperature == <<45, 50, 65, 85, 95>>

Results == {"ADLX_OK", "ADLX_FAIL"}
ADLX_SUCCEEDED(r) == r = "ADLX_OK"
ADLX_FAILED(r) == ~ADLX_SUCCEEDED(r)

B2I(b) == IF b THEN 1 ELSE 0

\* one call on an SDK object: the object, the method, an index argument,
\* the value passed in or handed back (handles: 1 = an interface, 0 = nullptr),
\* and the result code
Call(obj, op, idx, val, r) ==
    [obj |-> obj, op |-> op, idx |-> idx, val |-> val, res |-> r]

Log(c) == calls' = Append(calls, c)

\* the order of the statements of main
MainOrder_swapped ==
    <<"L36", "L41", "L50", "L59", "L77", "L68", "L86", "L96", "L97", "L98",
      "L105", "L111">>
MainOrder ==
    <<"L36", "L41", "L50", "L59", "L68", "L77", "L86", "L96", "L97", "L98",
      "L105", "L111">>

After(l) ==
    MainOrder[(CHOOSE i \in 1..Len(MainOrder) : MainOrder[i] = l) + 1]

\* if (ADLX_FAILED(res) || handle == nullptr)
AcquireFailed_unchecked(r, got) == ADLX_FAILED(r)
AcquireFailed(r, got) == ADLX_FAILED(r) \/ ~got

\* "Only set if current is different"
NeedSet_always(current, wanted) == TRUE
NeedSet(current, wanted) == current # wanted

\* the smart pointers of main's block and of SetFan, in order of destruction
MainPtrs ==
    <<"manualFanTuning", "manualFanTuningIfc", "oneGPU", "gpus",
      "gpuTuningService">>
SetFanPtrs == <<"oneState", "states">>

InHeld(p) == p \in held

\* the Release calls made when the pointers `ptrs` go out of scope
Releases(ptrs) ==
    LET live == SelectSeq(ptrs, InHeld)
    IN  [i \in 1..Len(live) |-> Call(live[i], "Release", 0, 0, "ADLX_OK")]

Range(s) == {s[i] : i \in 1..Len(s)}

\* a device curve of n states; the entries in ds (speed) and dt (temperature)
\* hold the target of the next index instead of their own
DeviceList(n, ds, dt) ==
    [i \in 1..n |->
        [speed |-> IF (i - 1) % NumStates \in ds
                   THEN FanSpeed[(i % NumStates) + 1]
                   ELSE FanSpeed[((i - 1) % NumStates) + 1],
         temperature |-> IF (i - 1) % NumStates \in dt
                         THEN Temperature[(i % NumStates) + 1]
                         ELSE Temperature[((i - 1) % NumStates) + 1]]]

\* the sets of indices of the program's five states
Indices == SUBSET (0..(NumStates - 1))

DeviceLists ==
    {DeviceList(n, d[1], d[2]) :
        n \in 0..MaxStates,
        d \in {e \in Indices \X Indices :
                  Cardinality(e[1]) + Cardinality(e[2]) <= MaxDirty}}

----------------------------------------------------------------------------
Init ==
    /\ pc = "L36"
    /\ adlx = "unloaded"
    /\ held = {}
    /\ res = "ADLX_FAIL"
    /\ calls = <<>>
    /\ cout = <<>>
    /\ waitCalls = <<>>
    /\ msg = ""
    /\ retCode = -1
    /\ devZeroRPM \in BOOLEAN
    /\ devStates \in DeviceLists
    /\ dev0 = [zeroRPM |-> devZeroRPM, states |-> devStates]
    /\ enabled = FALSE
    /\ supported = FALSE
    /\ ZeroRPMenabled = FALSE
    /\ states = <<>>
    /\ passed = <<>>
    /\ crt = 0
    /\ speed = 0
    /\ temperature = 0

zeroVars == <<enabled, supported, ZeroRPMenabled>>
fanVars == <<states, passed, crt, speed, temperature>>
devVars == <<devZeroRPM, devStates, dev0>>
outVars == <<cout, waitCalls, retCode>>

\* int WaitAndExit(const char* msg, const int retCode), whose result main returns
WaitAndExit(m, code) ==
    /\ cout' = IF m # "" THEN Append(cout, m) ELSE cout
    /\ waitCalls' = Append(waitCalls, <<m, code>>)
    /\ retCode' = code

\* a failure branch of main: remember the message, go and destroy ADLX
FailWith(m) ==
    /\ msg' = m
    /\ pc' = "fail"

----------------------------------------------------------------------------
(* main *)

\* res = g_ADLXHelp.Initialize();
Initialize ==
    /\ pc = "L36"
    /\ \E r \in Results :
        /\ res' = r
        /\ Log(Call("g_ADLXHelp", "Initialize", 0, 0, r))
        /\ IF ADLX_SUCCEEDED(r)
           THEN adlx' = "initialized" /\ pc' = After("L36")
           ELSE adlx' = adlx /\ pc' = "L101"
    /\ UNCHANGED <<held, msg, outVars, devVars, zeroVars, fanVars>>

\* return WaitAndExit("\tg_ADLXHelp initialize failed", 0);
InitializeFailed ==
    /\ pc = "L101"
    /\ WaitAndExit("g_ADLXHelp initialize failed", 0)
    /\ pc' = "done"
    /\ UNCHANGED <<adlx, held, res, calls, msg, devVars, zeroVars, fanVars>>

\* GetSystemServices()->GetGPUTuningServices(&gpuTuningService)
\* (main uses gpuTuningService and gpus untested after a success, so a success
\* is taken to hand back an interface; a failure leaves the pointer empty)
GetGPUTuningServices ==
    /\ pc = "L41"
    /\ \E r \in Results :
        /\ res' = r
        /\ Log(Call("systemServices", "GetGPUTuningServices", 0,
                    B2I(ADLX_SUCCEEDED(r)), r))
        /\ IF ADLX_FAILED(r)
           THEN held' = held /\ FailWith("Get GPU tuning services failed")
           ELSE /\ held' = held \cup {"gpuTuningService"}
                /\ pc' = After("L41")
                /\ msg' = msg
    /\ UNCHANGED <<adlx, outVars, devVars, zeroVars, fanVars>>

\* GetSystemServices()->GetGPUs(&gpus)
GetGPUs ==
    /\ pc = "L50"
    /\ \E r \in Results :
        /\ res' = r
        /\ Log(Call("systemServices", "GetGPUs", 0, B2I(ADLX_SUCCEEDED(r)), r))
        /\ IF ADLX_FAILED(r)
           THEN held' = held /\ FailWith("Get GPU list failed")
           ELSE /\ held' = held \cup {"gpus"}
                /\ pc' = After("L50")
                /\ msg' = msg
    /\ UNCHANGED <<adlx, outVars, devVars, zeroVars, fanVars>>

\* gpus->At(0, &oneGPU): fails, succeeds with nullptr, or succeeds with a GPU
GetGPU ==
    /\ pc = "L59"
    /\ \E r \in Results, got \in BOOLEAN :
        /\ got => ADLX_SUCCEEDED(r)
        /\ res' = r
        /\ Log(Call("gpus", "At", 0, B2I(got), r))
        /\ held' = IF got THEN held \cup {"oneGPU"} ELSE held
        /\ IF AcquireFailed(r, got)
           THEN FailWith("Get GPU failed")
           ELSE pc' = After("L59") /\ msg' = msg
    /\ UNCHANGED <<adlx, outVars, devVars, zeroVars, fanVars>>

\* gpuTuningService->IsSupportedManualFanTuning(oneGPU, &supported)
IsSupportedManualFanTuning ==
    /\ pc = "L68"
    /\ \E r \in Results, sup \in BOOLEAN :
        /\ sup => ADLX_SUCCEEDED(r)
        /\ res' = r
        /\ Log(Call("gpuTuningService", "IsSupportedManualFanTuning", 0,
                    B2I(sup), r))
        /\ IF AcquireFailed(r, sup)
           THEN FailWith("This GPU doesn't supported manual fan tuning")
           ELSE pc' = After("L68") /\ msg' = msg
    /\ UNCHANGED <<adlx, held, outVars, devVars, zeroVars, fanVars>>

\* gpuTuningService->GetManualFanTuning(oneGPU, &manualFanTuningIfc)
GetManualFanTuning ==
    /\ pc = "L77"
    /\ \E r \in Results, got \in BOOLEAN :
        /\ got => ADLX_SUCCEEDED(r)
        /\ res' = r
        /\ Log(Call("gpuTuningService", "GetManualFanTuning", 0, B2I(got), r))
        /\ held' = IF got THEN held \cup {"manualFanTuningIfc"} ELSE held
        /\ IF AcquireFailed(r, got)
           THEN FailWith("Get manual fan tuning interface failed")
           ELSE pc' = After("L77") /\ msg' = msg
    /\ UNCHANGED <<adlx, outVars, devVars, zeroVars, fanVars>>

\* IADLXManualFanTuningPtr manualFanTuning(manualFanTuningIfc);
CastManualFanTuning ==
    /\ pc = "L86"
    /\ \E got \in BOOLEAN :
        /\ Log(Call("manualFanTuningIfc", "QueryInterface", 0, B2I(got),
                    IF got THEN "ADLX_OK" ELSE "ADLX_FAIL"))
        /\ held' = IF got THEN held \cup {"manualFanTuning"} ELSE held
        /\ IF ~got
           THEN FailWith("Get manual fan tuning failed")
           ELSE pc' = After("L86") /\ msg' = msg
    /\ UNCHANGED <<adlx, res, outVars, devVars, zeroVars, fanVars>>

\* a failure branch: res = g_ADLXHelp.Terminate(); std::cout << "Destroy ADLX res: "
DestroyOnFailure ==
    /\ pc = "fail"
    /\ \E r \in Results :
        /\ res' = r
        /\ Log(Call("g_ADLXHelp", "Terminate", 0, 0, r))
    /\ adlx' = "terminated"
    /\ cout' = Append(cout, "Destroy ADLX res")
    /\ pc' = "fail_exit"
    /\ UNCHANGED <<held, waitCalls, msg, retCode, devVars, zeroVars, fanVars>>

\* a failure branch: return WaitAndExit(msg, 0); the block's pointers are
\* destroyed as main returns
ReturnOnFailure ==
    /\ pc = "fail_exit"
    /\ WaitAndExit(msg, 0)
    /\ calls' = calls \o Releases(MainPtrs)
    /\ held' = held \ Range(MainPtrs)
    /\ pc' = "done"
    /\ UNCHANGED <<adlx, res, msg, devVars, zeroVars, fanVars>>

\* SetZeroRPM(manualFanTuning, false);
CallSetZeroRPM ==
    /\ pc = "L96"
    /\ enabled' = FALSE
    /\ supported' = FALSE
    /\ ZeroRPMenabled' = FALSE
    /\ pc' = "Z131"
    /\ UNCHANGED <<adlx, held, res, calls, msg, outVars, devVars, fanVars>>

\* SetFan(manualFanTuning);
CallSetFan ==
    /\ pc = "L97"
    /\ pc' = "F156"
    /\ UNCHANGED <<adlx, held, res, calls, msg, outVars, devVars, zeroVars,
                   fanVars>>

\* the closing brace of the if block: its pointers are destroyed
ScopeExit ==
    /\ pc = "L98"
    /\ calls' = calls \o Releases(MainPtrs)
    /\ held' = held \ Range(MainPtrs)
    /\ pc' = After("L98")
    /\ UNCHANGED <<adlx, res, msg, outVars, devVars, zeroVars, fanVars>>

\* res = g_ADLXHelp.Terminate();
Terminate ==
    /\ pc = "L105"
    /\ \E r \in Results :
        /\ res' = r
        /\ Log(Call("g_ADLXHelp", "Terminate", 0, 0, r))
    /\ adlx' = "terminated"
    /\ pc' = After("L105")
    /\ UNCHANGED <<held, msg, outVars, devVars, zeroVars, fanVars>>

\* return 0;
Return ==
    /\ pc = "L111"
    /\ retCode' = 0
    /\ pc' = "done"
    /\ UNCHANGED <<adlx, held, res, calls, cout, waitCalls, msg, devVars,
                   zeroVars, fanVars>>

----------------------------------------------------------------------------
(* SetZeroRPM *)

ReturnFromSetZeroRPM == pc' = After("L96")

\* ADLX_RESULT res = manualFanTuning->IsSupportedZeroRPM(&supported);
IsSupportedZeroRPM ==
    /\ pc = "Z131"
    /\ \E r \in Results, sup \in BOOLEAN :
        /\ sup => ADLX_SUCCEEDED(r)
        /\ res' = r
        /\ supported' = sup
        /\ Log(Call("manualFanTuning", "IsSupportedZeroRPM", 0, B2I(sup), r))
        /\ IF ADLX_FAILED(r) \/ ~sup
           THEN ReturnFromSetZeroRPM
           ELSE pc' = "Z139"
    /\ UNCHANGED <<adlx, held, msg, outVars, devVars, enabled, ZeroRPMenabled,
                   fanVars>>

\* res = manualFanTuning->GetZeroRPMState(&ZeroRPMenabled);
GetZeroRPMState ==
    /\ pc = "Z139"
    /\ \E r \in Results :
        /\ res' = r
        /\ ZeroRPMenabled' = IF ADLX_SUCCEEDED(r) THEN devZeroRPM ELSE FALSE
        /\ Log(Call("manualFanTuning", "GetZeroRPMState", 0,
                    B2I(ZeroRPMenabled'), r))
    /\ pc' = "Z142"
    /\ UNCHANGED <<adlx, held, msg, outVars, devVars, enabled, supported,
                   fanVars>>

\* if (ZeroRPMenabled != enabled) res = manualFanTuning->SetZeroRPMState(enabled);
SetZeroRPMState ==
    /\ pc = "Z142"
    /\ IF NeedSet(ZeroRPMenabled, enabled)
       THEN \E r \in Results :
               /\ res' = r
               /\ Log(Call("manualFanTuning", "SetZeroRPMState", 0,
                           B2I(enabled), r))
               /\ devZeroRPM' = IF ADLX_SUCCEEDED(r) THEN enabled
                                ELSE devZeroRPM
       ELSE UNCHANGED <<res, calls, devZeroRPM>>
    /\ ReturnFromSetZeroRPM
    /\ UNCHANGED <<adlx, held, msg, outVars, devStates, dev0, zeroVars,
                   fanVars>>

----------------------------------------------------------------------------
(* SetFan *)

\* ADLX_RESULT res = manualFanTuning->GetFanTuningStates(&states);
GetFanTuningStates ==
    /\ pc = "F156"
    /\ \E r \in Results :
        /\ res' = r
        /\ Log(Call("manualFanTuning", "GetFanTuningStates", 0,
                    B2I(ADLX_SUCCEEDED(r)), r))
        /\ IF ADLX_SUCCEEDED(r)
           THEN /\ states' = devStates
                /\ held' = held \cup {"states"}
                /\ pc' = "F159"
           ELSE /\ UNCHANGED <<states, held>>
                /\ pc' = "F193"
    /\ UNCHANGED <<adlx, msg, outVars, devVars, zeroVars, passed, crt, speed,
                   temperature>>

\* adlx_uint StatesSize = states->Size(); if (StatesSize == 5) for (crt = states->Begin(); ...
CheckStatesSize ==
    /\ pc = "F159"
    /\ LET StatesSize == Len(states)
       IN  IF StatesSize = NumStates
           THEN /\ calls' = calls \o
                       << Call("states", "Size", 0, StatesSize, "ADLX_OK"),
                          Call("states", "Begin", 0, 0, "ADLX_OK"),
                          Call("states", "End", 0, StatesSize, "ADLX_OK") >>
                /\ crt' = 0
                /\ pc' = IF 0 # StatesSize THEN "F165" ELSE "F193"
           ELSE /\ Log(Call("states", "Size", 0, StatesSize, "ADLX_OK"))
                /\ crt' = crt
                /\ pc' = "F193"
    /\ UNCHANGED <<adlx, held, res, msg, outVars, devVars, zeroVars, states,
                   passed, speed, temperature>>

\* res = states->At(crt, &oneState); adlx_int speed = 0, temperature = 0;
StateAt ==
    /\ pc = "F165"
    /\ res' = "ADLX_OK"
    /\ Log(Call("states", "At", crt, 1, "ADLX_OK"))
    /\ held' = held \cup {"oneState"}
    /\ speed' = 0
    /\ temperature' = 0
    /\ pc' = "F168"
    /\ UNCHANGED <<adlx, msg, outVars, devVars, zeroVars, states, passed, crt>>

\* oneState->GetFanSpeed(&speed); (the accessors of the fetched list read the
\* list the program holds)
GetFanSpeed ==
    /\ pc = "F168"
    /\ speed' = states[crt + 1].speed
    /\ Log(Call("oneState", "GetFanSpeed", crt, speed', "ADLX_OK"))
    /\ pc' = "F171"
    /\ UNCHANGED <<adlx, held, res, msg, outVars, devVars, zeroVars, states,
                   passed, crt, temperature>>

\* if (speed != FanSpeed[crt]) { oneState->SetFanSpeed(FanSpeed[crt]); oneState->GetFanSpeed(&speed); }
\* (the result of the setter is discarded; a setter that fails stores nothing)
SetFanSpeed ==
    /\ pc = "F171"
    /\ IF NeedSet(speed, FanSpeed[crt + 1])
       THEN \E r \in Results :
               /\ states' = IF ADLX_SUCCEEDED(r)
                            THEN [states EXCEPT
                                     ![crt + 1].speed = FanSpeed[crt + 1]]
                            ELSE states
               /\ speed' = states'[crt + 1].speed
               /\ calls' = calls \o
                      << Call("oneState", "SetFanSpeed", crt,
                              FanSpeed[crt + 1], r),
                         Call("oneState", "GetFanSpeed", crt, speed',
                              "ADLX_OK") >>
       ELSE UNCHANGED <<states, speed, calls>>
    /\ pc' = "F177"
    /\ UNCHANGED <<adlx, held, res, msg, outVars, devVars, zeroVars, passed,
                   crt, temperature>>

\* oneState->GetTemperature(&temperature);
GetTemperature ==
    /\ pc = "F177"
    /\ temperature' = states[crt + 1].temperature
    /\ Log(Call("oneState", "GetTemperature", crt, temperature', "ADLX_OK"))
    /\ pc' = "F180"
    /\ UNCHANGED <<adlx, held, res, msg, outVars, devVars, zeroVars, states,
                   passed, crt, speed>>

\* if (temperature != Temperature[crt]) { oneState->SetTemperature(Temperature[crt]); oneState->GetTemperature(&temperature); }
SetTemperature ==
    /\ pc = "F180"
    /\ IF NeedSet(temperature, Temperature[crt + 1])
       THEN \E r \in Results :
               /\ states' = IF ADLX_SUCCEEDED(r)
                            THEN [states EXCEPT
                                     ![crt + 1].temperature =
                                         Temperature[crt + 1]]
                            ELSE states
               /\ temperature' = states'[crt + 1].temperature
               /\ calls' = calls \o
                      << Call("oneState", "SetTemperature", crt,
                              Temperature[crt + 1], r),
                         Call("oneState", "GetTemperature", crt, temperature',
                              "ADLX_OK") >>
       ELSE UNCHANGED <<states, temperature, calls>>
    /\ pc' = "F187"
    /\ UNCHANGED <<adlx, held, res, msg, outVars, devVars, zeroVars, passed,
                   crt, speed>>

\* ++crt; crt != states->End()
NextState ==
    /\ pc = "F187"
    /\ crt' = crt + 1
    /\ Log(Call("states", "End", 0, Len(states), "ADLX_OK"))
    /\ pc' = IF crt' # Len(states) THEN "F165" ELSE "F193"
    /\ UNCHANGED <<adlx, held, res, msg, outVars, devVars, zeroVars, states,
                   passed, speed, temperature>>

\* res = manualFanTuning->IsValidFanTuningStates(states, &errorIndex);
IsValidFanTuningStates ==
    /\ pc = "F193"
    /\ \E r \in Results :
        /\ res' = r
        /\ Log(Call("manualFanTuning", "IsValidFanTuningStates", 0,
                    B2I("states" \in held), r))
        /\ pc' = IF ADLX_SUCCEEDED(r) THEN "F197" ELSE "F213"
    /\ UNCHANGED <<adlx, held, msg, outVars, devVars, zeroVars, fanVars>>

\* manualFanTuning->SetFanTuningStates(states);
SetFanTuningStates ==
    /\ pc = "F197"
    /\ \E r \in Results :
        /\ Log(Call("manualFanTuning", "SetFanTuningStates", 0,
                    B2I("states" \in held), r))
        /\ devStates' = IF ADLX_SUCCEEDED(r) /\ "states" \in held
                        THEN states ELSE devStates
    /\ passed' = Append(passed, states)
    /\ pc' = "F213"
    /\ UNCHANGED <<adlx, held, res, msg, outVars, devZeroRPM, dev0, zeroVars,
                   states, crt, speed, temperature>>

\* the closing brace of SetFan: oneState and states are destroyed
ReturnFromSetFan ==
    /\ pc = "F213"
    /\ calls' = calls \o Releases(SetFanPtrs)
    /\ held' = held \ Range(SetFanPtrs)
    /\ pc' = After("L97")
    /\ UNCHANGED <<adlx, res, msg, outVars, devVars, zeroVars, fanVars>>

----------------------------------------------------------------------------
Next ==
    \/ Initialize
    \/ InitializeFailed
    \/ GetGPUTuningServices
    \/ GetGPUs
    \/ GetGPU
    \/ IsSupportedManualFanTuning
    \/ GetManualFanTuning
    \/ CastManualFanTuning
    \/ DestroyOnFailure
    \/ ReturnOnFailure
    \/ CallSetZeroRPM
    \/ IsSupportedZeroRPM
    \/ GetZeroRPMState
    \/ SetZeroRPMState
    \/ CallSetFan
    \/ GetFanTuningStates
    \/ CheckStatesSize
    \/ StateAt
    \/ GetFanSpeed
    \/ SetFanSpeed
    \/ GetTemperature
    \/ SetTemperature
    \/ NextState
    \/ IsValidFanTuningStates
    \/ SetFanTuningStates
    \/ ReturnFromSetFan
    \/ ScopeExit
    \/ Terminate
    \/ Return

Spec == Init /\ [][Next]_vars

----------------------------------------------------------------------------
(* Reading the trace *)

Positions == 1..Len(calls)
At(op) == {k \in Positions : calls[k].op = op}
AtIdx(op, i) == {k \in At(op) : calls[k].idx = i}
Count(op) == Cardinality(At(op))
Succeeded(op) == \E k \in At(op) : ADLX_SUCCEEDED(calls[k].res)
FailedCall(op) == \E k \in At(op) : ADLX_FAILED(calls[k].res)

Done == pc = "done"
InitializeSucceeded == Succeeded("Initialize")

\* the curve the program is written to apply
TargetStates ==
    [i \in 1..NumStates |-> [speed |-> FanSpeed[i],
                             temperature |-> Temperature[i]]]

\* the steps the specification names, by the call that performs them
StepOf(c) ==
    CASE c.op = "Initialize" -> "initialize"
      [] c.op = "GetGPUs" \/ (c.op = "At" /\ c.obj = "gpus") -> "gpu handle"
      [] c.op = "GetManualFanTuning" -> "capability interface"
      [] c.op = "IsSupportedManualFanTuning" -> "check support"
      [] c.op \in {"SetFanSpeed", "SetTemperature"} -> "mutate"
      [] c.op = "SetFanTuningStates" -> "commit"
      [] c.op = "Terminate" -> "terminate"
      [] OTHER -> "none"

Rank(order, s) == CHOOSE i \in 1..Len(order) : order[i] = s

IsStep(c) == StepOf(c) # "none"

\* no step of the trace is followed by a step that comes earlier in `order`
InOrder(order) ==
    LET steps == SelectSeq(calls, IsStep)
    IN  \A i \in 1..(Len(steps) - 1) :
            Rank(order, StepOf(steps[i])) <= Rank(order, StepOf(steps[i + 1]))

OncePerRun ==
    /\ \A op \in {"Initialize", "GetGPUs", "GetManualFanTuning",
                  "IsSupportedManualFanTuning", "SetFanTuningStates",
                  "Terminate"} : Count(op) <= 1
    /\ Cardinality({k \in At("At") : calls[k].obj = "gpus"}) <= 1
    /\ \A i \in 0..(NumStates - 1) :
        /\ Cardinality(AtIdx("SetFanSpeed", i)) <= 1
        /\ Cardinality(AtIdx("SetTemperature", i)) <= 1

CompletedWithoutError == Done /\ waitCalls = <<>>

IsAcquisition(c) ==
    \/ c.op \in {"Initialize", "GetGPUTuningServices", "GetGPUs",
                 "IsSupportedManualFanTuning", "GetManualFanTuning"}
    \/ (c.op = "At" /\ c.obj = "gpus")

\* the step failed, handed back nullptr, or reported "not supported"
AcquisitionFailed(c) ==
    /\ IsAcquisition(c)
    /\ ADLX_FAILED(c.res) \/ (c.op # "Initialize" /\ c.val = 0)

IsMutating(c) ==
    c.op \in {"SetZeroRPMState", "SetFanSpeed", "SetTemperature",
              "SetFanTuningStates"}

----------------------------------------------------------------------------
(* C1: when main has returned after a successful Initialize, Terminate was  *)
(* called exactly once and is the last call made on the SDK; after a failed *)
(* Initialize, Terminate was never called and no other SDK call was made.   *)
C1_TerminateIsLastCall ==
    Done =>
        IF InitializeSucceeded
        THEN Count("Terminate") = 1 /\ calls[Len(calls)].op = "Terminate"
        ELSE Count("Terminate") = 0 /\ Len(calls) = 1

(* C2: whenever ADLX has been destroyed by Terminate, none of the interface *)
(* pointers the program obtained still holds an interface.                  *)
C2_NoOutstandingInterfaces ==
    adlx = "terminated" => held = {}

(* C3, as the specification states it: in a run that completes without      *)
(* error the steps occur in the order initialize, GPU handle, capability    *)
(* interface, check support, mutate, commit, terminate, each at most once.  *)
SpecOrder ==
    <<"initialize", "gpu handle", "capability interface", "check support",
      "mutate", "commit", "terminate">>

C3_SpecOrder ==
    CompletedWithoutError => InOrder(SpecOrder) /\ OncePerRun

(* C3, amended: in a run that completes without error the steps occur in    *)
(* the order initialize, GPU handle, check support, capability interface,   *)
(* mutate, commit, terminate, each at most once.                            *)
CodeOrder ==
    <<"initialize", "gpu handle", "check support", "capability interface",
      "mutate", "commit", "terminate">>

C3_CodeOrder ==
    CompletedWithoutError => InOrder(CodeOrder) /\ OncePerRun

C3_Witness ==
    /\ CompletedWithoutError
    /\ Succeeded("IsSupportedManualFanTuning")
    /\ Succeeded("GetManualFanTuning")
    /\ Count("SetFanSpeed") > 0
    /\ Count("SetTemperature") > 0
    /\ Count("SetFanTuningStates") = 1
    /\ Count("Terminate") = 1

(* C4: every state list handed to SetFanTuningStates holds exactly the five *)
(* target (temperature, speed) pairs, whatever the device's list was.       *)
C4_CommitsTargetCurve ==
    \A i \in 1..Len(passed) : passed[i] = TargetStates

(* C5: in the trace of a finished run, SetFanSpeed (SetTemperature) is      *)
(* called exactly when the getter read just before it returned a value      *)
(* other than the target of that index, at most once per state;             *)
(* SetZeroRPMState is called exactly when zero RPM was reported supported   *)
(* and GetZeroRPMState read a value other than enabled.                     *)
SetOnlyIfDifferent(getter, setter, target) ==
    /\ \A k \in At(setter) :
        /\ k > 1
        /\ calls[k - 1].op = getter
        /\ calls[k - 1].idx = calls[k].idx
        /\ calls[k - 1].val # target[calls[k].idx + 1]
    /\ \A k \in At(getter) :
        (/\ k < Len(calls)
         /\ (k > 1 => calls[k - 1].op # setter)
         /\ calls[k].val # target[calls[k].idx + 1])
            => (calls[k + 1].op = setter /\ calls[k + 1].idx = calls[k].idx)
    /\ \A i \in 0..(NumStates - 1) : Cardinality(AtIdx(setter, i)) <= 1

ZeroRPMSetOnlyIfDifferent ==
    /\ Count("SetZeroRPMState") <= 1
    /\ Count("SetZeroRPMState") = 1
        <=> /\ \E k \in At("IsSupportedZeroRPM") :
                 ADLX_SUCCEEDED(calls[k].res) /\ calls[k].val = 1
            /\ \E k \in At("GetZeroRPMState") : calls[k].val # B2I(enabled)

C5_SetOnlyIfDifferent ==
    Done =>
        /\ SetOnlyIfDifferent("GetFanSpeed", "SetFanSpeed", FanSpeed)
        /\ SetOnlyIfDifferent("GetTemperature", "SetTemperature", Temperature)
        /\ ZeroRPMSetOnlyIfDifferent

C5_Witness ==
    /\ Done
    /\ Count("SetFanSpeed") = 1
    /\ Count("GetFanSpeed") = NumStates + 1
    /\ Count("SetTemperature") = 1
    /\ Count("SetZeroRPMState") = 1
    /\ Count("SetFanTuningStates") = 1

C7_ZeroRPMDisabled ==
    pc = "L97" =>
        IF \E k \in At("IsSupportedZeroRPM") :
               ADLX_SUCCEEDED(calls[k].res) /\ calls[k].val = 1
        THEN ~FailedCall("SetZeroRPMState") => devZeroRPM = enabled
        ELSE /\ Count("GetZeroRPMState") = 0
             /\ Count("SetZeroRPMState") = 0
             /\ devZeroRPM = dev0.zeroRPM

(* C8: SetFanTuningStates is called at most once, only after a successful   *)
(* IsValidFanTuningStates and a successful GetFanTuningStates; if either of *)
(* them failed it is never called and the device's curve is unchanged.      *)
C8_CommitGuarded ==
    /\ Count("SetFanTuningStates") <= 1
    /\ \A k \in At("SetFanTuningStates") :
        /\ \E j \in At("IsValidFanTuningStates") :
            j < k /\ ADLX_SUCCEEDED(calls[j].res)
        /\ \E j \in At("GetFanTuningStates") :
            j < k /\ ADLX_SUCCEEDED(calls[j].res)
    /\ (FailedCall("GetFanTuningStates") \/ FailedCall("IsValidFanTuningStates"))
        => (Count("SetFanTuningStates") = 0 /\ devStates = dev0.states)

----------------------------------------------------------------------------
(* What the code does guarantee around the violated claims *)

\* after a successful Initialize, Terminate is called exactly once and only
\* Release calls follow it; on the success path nothing follows it
TerminateOnceThenOnlyReleases ==
    Done =>
        IF InitializeSucceeded
        THEN /\ Count("Terminate") = 1
             /\ \A k \in Positions :
                    (\E j \in At("Terminate") : j < k)
                        => calls[k].op = "Release"
             /\ waitCalls = <<>> => calls[Len(calls)].op = "Terminate"
        ELSE Count("Terminate") = 0 /\ Len(calls) = 1

\* on the success path nothing is held when Terminate is called
NothingHeldOnSuccessPath ==
    (adlx = "terminated" /\ msg = "") => held = {}

\* the list is the target curve when it was fetched with five states and no
\* setter failed
TargetCurveWhenWritten ==
    (/\ Succeeded("GetFanTuningStates")
     /\ Len(dev0.states) = NumStates
     /\ ~FailedCall("SetFanSpeed")
     /\ ~FailedCall("SetTemperature"))
        => \A i \in 1..Len(passed) : passed[i] = TargetStates

\* zero RPM ends disabled when GetZeroRPMState succeeded as well
ZeroRPMDisabledWhenRead ==
    (/\ pc = "L97"
     /\ \E k \in At("IsSupportedZeroRPM") : calls[k].val = 1
     /\ Succeeded("GetZeroRPMState")
     /\ ~FailedCall("SetZeroRPMState"))
        => devZeroRPM = enabled

\* no commit without a successful validation, and at most one commit
CommitNeedsValidation ==
    /\ Count("SetFanTuningStates") <= 1
    /\ \A k \in At("SetFanTuningStates") :
        \E j \in At("IsValidFanTuningStates") :
            j < k /\ ADLX_SUCCEEDED(calls[j].res)
    /\ FailedCall("IsValidFanTuningStates")
        => (Count("SetFanTuningStates") = 0 /\ devStates = dev0.states)

====
